---- MODULE Spec2Model ----
(***************************************************************************)
(* Model of crossclient: the token lifecycle of TokenClient                *)
(* (token_client.py) and the authenticated request dispatch of CrossClient *)
(* (cross_client.py).                                                      *)
(*                                                                         *)
(* Time is a discrete wall clock `now`.  The module token_client is        *)
(* imported at time 0; datetime.now() in a class body is evaluated then.   *)
(* The login server and the target endpoint are the environment: each call *)
(* to them draws a response from a small set.                              *)
(***************************************************************************)
EXTENDS Integers, Sequences, FiniteSets

VARIABLES now, built, token, call, handles, wire, ret, thr

vars == <<now, built, token, call, handles, wire, ret, thr>>

(***************************************************************************)
(* Bounds.                                                                 *)
(***************************************************************************)
MaxTime == 3

(***************************************************************************)
(* Values.                                                                 *)
(***************************************************************************)
\* The credentials the server issues: a token type with its access token.
Issued ==
  {[token_type |-> "Bearer", access_token |-> "abc123"],
   [token_type |-> "MAC", access_token |-> "xyz789"]}
Expiries == {1, 2}
RefreshExpiries == {3}
Handles == {"h1", "h2"}
Threads == {"a", "b"}
TargetStatuses == {200, 201, 400, 500}

\* A field the JSON body does not carry.
MissingStr == "<missing>"
MissingInt == -1

\* The value of datetime.now(timezone.utc) when the class body of Token ran,
\* i.e. when the module was imported: the process starts at time 0.
DefaultCreatedAt == 0

NoToken ==
  [access_token |-> MissingStr, refresh_token |-> MissingStr,
   token_type |-> MissingStr, created_at |-> MissingInt,
   expires_in |-> MissingInt, refresh_expires_in |-> MissingInt]

\* JSON bodies of a 200 login response at server time t: complete ones, with
\* or without created_at, and two that lack a required field.
TokenBodies(t) ==
  {[access_token |-> i.access_token, refresh_token |-> "def456",
    token_type |-> i.token_type, created_at |-> c,
    expires_in |-> e, refresh_expires_in |-> r] :
      i \in Issued, c \in {MissingInt, t}, e \in Expiries,
      r \in RefreshExpiries}

BrokenBodies(t) ==
  {[access_token |-> MissingStr, refresh_token |-> "def456",
    token_type |-> "Bearer", created_at |-> t,
    expires_in |-> 1, refresh_expires_in |-> 3],
   [access_token |-> "abc123", refresh_token |-> "def456",
    token_type |-> "Bearer", created_at |-> t,
    expires_in |-> MissingInt, refresh_expires_in |-> 3]}

\* What the login endpoint may answer at time t.
LoginResponses(t) ==
  {[status |-> 200, text |-> "<token json>", body |-> b] :
      b \in TokenBodies(t) \cup BrokenBodies(t)}
  \cup
  {[status |-> 401, text |-> "{\"error\": \"Invalid credentials\"}",
    body |-> NoToken],
   [status |-> 500, text |-> "{\"error\": \"Unhandled mock request\"}",
    body |-> NoToken]}

NoResponse == [status |-> 0, text |-> "", body |-> NoToken]

NoOutcome == [raises |-> FALSE, status |-> 0, text |-> ""]

\* str(response.status_code)
StatusStr(s) ==
  CASE s = 200 -> "200"
    [] s = 201 -> "201"
    [] s = 400 -> "400"
    [] s = 401 -> "401"
    [] s = 500 -> "500"
    [] OTHER -> "0"

(***************************************************************************)
(* Token.                                                                  *)
(***************************************************************************)
\* Token.is_expired, read at wall-clock time t.
IsExpired(tok, t) == t >= tok.created_at + tok.expires_in

\* Token.is_refresh_expired, read at wall-clock time t.
IsRefreshExpired(tok, t) == t >= tok.created_at + tok.refresh_expires_in

\* Pydantic: every field but created_at is required.
WellFormed(body) ==
  /\ body.access_token # MissingStr
  /\ body.refresh_token # MissingStr
  /\ body.token_type # MissingStr
  /\ body.expires_in # MissingInt
  /\ body.refresh_expires_in # MissingInt

ModelValidateLax(body) ==
  [body EXCEPT !.created_at =
     IF body.created_at = MissingInt THEN DefaultCreatedAt ELSE @,
               !.access_token =
     IF body.access_token = MissingStr THEN "" ELSE @,
               !.expires_in =
     IF body.expires_in = MissingInt THEN 0 ELSE @]

\* Token.model_validate(body) for a well-formed body: created_at takes the
\* class-level default when the body omits it.
ModelValidate(body) ==
  [body EXCEPT !.created_at =
     IF body.created_at = MissingInt THEN DefaultCreatedAt ELSE @]

(***************************************************************************)
(* TokenClient.                                                            *)
(***************************************************************************)
BaseUrl == "https://sweetcross.link/api/v1"

\* TokenClient.url_auth
UrlAuth == <<BaseUrl, "/login/access_token">>

\* TokenClient.url_refresh
UrlRefresh == <<BaseUrl, "/login/refresh_token">>

NoRequest == [method |-> "", url |-> <<>>, data |-> {}]

LoginRequestViaRefresh(cached, t) ==
  IF cached # NoToken /\ ~(t >= cached.created_at + cached.refresh_expires_in)
    THEN [method |-> "POST", url |-> UrlRefresh, data |-> {"refresh_token"}]
    ELSE [method |-> "POST", url |-> UrlAuth,
          data |-> {"username", "password"}]

\* The request _get_token sends when _token holds `cached` at time t:
\* self._client.post(self.url_auth, data={"username": ..., "password": ...}).
LoginRequest(cached, t) ==
  [method |-> "POST", url |-> UrlAuth, data |-> {"username", "password"}]

FormatAuthErrorNoBody(response) ==
  <<"Failed to obtain access token: ">>

\* f"Failed to obtain access token: {response.text}"
FormatAuthError(response) ==
  <<"Failed to obtain access token: ", response.text>>

GetTokenDefaulting(response) ==
  IF response.status # 200
    THEN [ok |-> FALSE, tok |-> NoToken, errType |-> "ValueError",
          err |-> FormatAuthError(response)]
    ELSE [ok |-> TRUE, tok |-> ModelValidateLax(response.body),
          errType |-> "", err |-> <<>>]

\* TokenClient._get_token, given the response of the login POST.
GetToken(response) ==
  IF response.status # 200
    THEN [ok |-> FALSE, tok |-> NoToken, errType |-> "ValueError",
          err |-> FormatAuthError(response)]
    ELSE IF ~WellFormed(response.body)
      THEN [ok |-> FALSE, tok |-> NoToken, errType |-> "ValidationError",
            err |-> <<"Field required">>]
      ELSE [ok |-> TRUE, tok |-> ModelValidate(response.body),
            errType |-> "", err |-> <<>>]

TokenPropertyEager(cached, t, response) ==
  LET g == GetToken(response) IN
    [raised |-> ~g.ok, value |-> g.tok,
     cache |-> IF g.ok THEN g.tok ELSE cached,
     logins |-> 1, errType |-> g.errType, err |-> g.err,
     resp |-> response]

TokenPropertyClobber(cached, t, response) ==
  IF cached = NoToken \/ IsExpired(cached, t)
    THEN LET g == GetToken(response) IN
      [raised |-> ~g.ok, value |-> g.tok,
       cache |-> g.tok,
       logins |-> 1, errType |-> g.errType, err |-> g.err,
       resp |-> response]
    ELSE [raised |-> FALSE, value |-> cached, cache |-> cached,
          logins |-> 0, errType |-> "", err |-> <<>>, resp |-> NoResponse]

TokenPropertySwallow(cached, t, response) ==
  IF cached = NoToken \/ IsExpired(cached, t)
    THEN LET g == GetToken(response) IN
      [raised |-> FALSE, value |-> IF g.ok THEN g.tok ELSE cached,
       cache |-> IF g.ok THEN g.tok ELSE cached,
       logins |-> 1, errType |-> "", err |-> <<>>,
       resp |-> response]
    ELSE [raised |-> FALSE, value |-> cached, cache |-> cached,
          logins |-> 0, errType |-> "", err |-> <<>>, resp |-> NoResponse]

\* The property TokenClient.token read at time t with `cached` in _token;
\* `response` is what the login endpoint answers if it is asked.  `cache` is
\* _token afterwards, `logins` the number of login POSTs made.
TokenProperty(cached, t, response) ==
  IF cached = NoToken \/ IsExpired(cached, t)
    THEN LET g == GetToken(response) IN
      [raised |-> ~g.ok, value |-> g.tok,
       cache |-> IF g.ok THEN g.tok ELSE cached,
       logins |-> 1, errType |-> g.errType, err |-> g.err,
       resp |-> response]
    ELSE [raised |-> FALSE, value |-> cached, cache |-> cached,
          logins |-> 0, errType |-> "", err |-> <<>>, resp |-> NoResponse]

\* The answers of the login endpoint that a read of TokenClient.token at time
\* t can meet: none when the read makes no login call.
Answers(cached, t) ==
  IF cached = NoToken \/ IsExpired(cached, t)
    THEN LoginResponses(t)
    ELSE {NoResponse}

(***************************************************************************)
(* State.                                                                  *)
(***************************************************************************)
NoArgs ==
  [suffix |-> "", df |-> FALSE, exists |-> FALSE, contract |-> ""]

NoSub ==
  [outcome |-> "none", errType |-> "", err |-> <<>>, posts |-> 0,
   touched |-> FALSE, args |-> NoArgs]

NoWire ==
  [method |-> "", tokenType |-> MissingStr, accessToken |-> MissingStr,
   cache |-> NoToken, at |-> MissingInt, endpoint |-> <<>>,
   given |-> [given |-> FALSE, dict |-> <<>>], headers |-> <<>>,
   answer |-> NoOutcome]

IdleCall ==
  [pc |-> "idle", method |-> "", tokenType |-> MissingStr,
   logins |-> 0, before |-> NoToken, resp |-> NoResponse,
   attached |-> {}, toClose |-> {}, caller |-> "", endpoint |-> <<>>,
   headers |-> [given |-> FALSE, dict |-> <<>>], args |-> NoArgs,
   startExpired |-> FALSE, loginReq |-> NoRequest]

NoRet ==
  [op |-> "none", outcome |-> "none", value |-> NoToken,
   errType |-> "", err |-> <<>>, logins |-> 0, requested |-> FALSE,
   sent |-> 0, status |-> 0, before |-> NoToken, pre |-> NoToken,
   at |-> MissingInt, resp |-> NoResponse, attached |-> {},
   text |-> "", caller |-> "", sub |-> NoSub, startExpired |-> FALSE,
   loginReq |-> NoRequest, endpoint |-> <<>>]

IdleThread ==
  [pc |-> "idle", got |-> NoToken, value |-> NoToken, orig |-> NoToken,
   alias |-> FALSE, at |-> MissingInt]

Init ==
  /\ now = 0
  /\ built = FALSE
  /\ token = NoToken
  /\ call = IdleCall
  /\ handles = [h \in Handles |-> "closed"]
  /\ wire = NoWire
  /\ ret = NoRet
  /\ thr = [c \in Threads |-> IdleThread]

\* The wall clock advances.  The record of the call that has just finished
\* and of the request it sent is kept only for the instant it finished at.
Tick ==
  /\ now < MaxTime
  /\ now' = now + 1
  /\ ret' = NoRet
  /\ wire' = IF call.pc = "idle" THEN NoWire ELSE wire
  /\ UNCHANGED <<built, token, call, handles, thr>>

\* The caller has taken the result of the call that finished: its record is
\* dropped before the next call begins.
Forget ==
  /\ call.pc = "idle"
  /\ ret # NoRet
  /\ ret' = NoRet
  /\ wire' = NoWire
  /\ UNCHANGED <<now, built, token, call, handles, thr>>

\* TokenClient(...) / CrossClient(...): the validator logs in; when the login
\* fails the constructor raises and no object exists.
Construct ==
  /\ ~built
  /\ call.pc = "idle"
  /\ ret = NoRet
  /\ \E response \in LoginResponses(now) :
       LET g == GetToken(response) IN
         /\ built' = g.ok
         /\ token' = g.tok
         /\ ret' = [NoRet EXCEPT !.op = "construct",
                      !.outcome = IF g.ok THEN "returned" ELSE "raised",
                      !.value = g.tok,
                      !.errType = IF g.ok THEN "" ELSE "ValidationError",
                      !.err = g.err, !.logins = 1,
                      !.at = now, !.resp = response,
                      !.loginReq = LoginRequest(NoToken, now)]
  /\ UNCHANGED <<now, call, handles, wire, thr>>

\* client.token read by a caller of the TokenClient.
CurrentToken ==
  /\ built
  /\ call.pc = "idle"
  /\ ret = NoRet
  /\ \E response \in Answers(token, now) :
       LET r == TokenProperty(token, now, response) IN
         /\ token' = r.cache
         /\ ret' = [NoRet EXCEPT !.op = "token",
                      !.outcome = IF r.raised THEN "raised" ELSE "returned",
                      !.value = r.value, !.errType = r.errType,
                      !.err = r.err, !.logins = r.logins,
                      !.before = token, !.pre = token, !.at = now,
                      !.resp = r.resp,
                      !.loginReq = IF r.logins > 0
                                     THEN LoginRequest(token, now)
                                     ELSE NoRequest]
  /\ UNCHANGED <<now, built, call, handles, wire, thr>>

(***************************************************************************)
(* CrossClient.                                                            *)
(***************************************************************************)
Fields == {"file", "attachment"}

\* A value of the files argument: a (filename, file, mimetype) tuple whose
\* file is an open handle or bytes, or the bare open handle.
FileValues ==
  {[form |-> "tuple", content |-> c] : c \in Handles \cup {"bytes"}}
  \cup {[form |-> "bare", content |-> h] : h \in Handles}

\* The file handles a files argument carries.
HandlesOf(entries) ==
  {entries[f].content : f \in DOMAIN entries} \cap Handles

\* The values of the `files` keyword argument of post: absent, or a dict or
\* a list of (field, value) pairs, as httpx accepts them.  No handle is
\* attached twice.
FilesArgs ==
  {[present |-> FALSE, container |-> "dict", entries |-> <<>>]}
  \cup
  {[present |-> TRUE, container |-> c, entries |-> e] :
     c \in {"dict", "list"},
     e \in {q \in UNION {[S -> FileValues] : S \in SUBSET Fields \ {{}}} :
              \A f, g \in DOMAIN q :
                 (f # g /\ q[f].content \in Handles)
                    => q[f].content # q[g].content}}

RECURSIVE CollectLoop(_, _, _)
\* The loop of post over kwargs["files"].items(): file_tuple[1] of each value,
\* kept when it has a close attribute.  Subscripting a bare file object
\* raises TypeError.
CollectLoop(entries, todo, acc) ==
  IF todo = {}
    THEN [raised |-> FALSE, errType |-> "", toClose |-> acc]
    ELSE LET f == CHOOSE x \in todo : TRUE
             e == entries[f]
         IN
      IF e.form = "bare"
        THEN [raised |-> TRUE, errType |-> "TypeError", toClose |-> {}]
        ELSE CollectLoop(entries, todo \ {f},
                         IF e.content \in Handles
                           THEN acc \cup {e.content} ELSE acc)

\* file_handles_to_close as post builds it before its try block; a list has
\* no items() and raises AttributeError.
CollectHandles(files) ==
  IF ~files.present
    THEN [raised |-> FALSE, errType |-> "", toClose |-> {}]
    ELSE IF files.container = "list"
      THEN [raised |-> TRUE, errType |-> "AttributeError", toClose |-> {}]
      ELSE CollectLoop(files.entries, DOMAIN files.entries, {})

\* The body text the target endpoint sends with a status.
ReasonText(s) ==
  CASE s = 200 -> "OK"
    [] s = 201 -> "Created"
    [] s = 400 -> "Bad Request"
    [] s = 500 -> "Internal Server Error"
    [] OTHER -> ""

\* What the transport does with a request to the target endpoint: a
\* response, or a transport error.
TransportOutcomes ==
  {[raises |-> FALSE, status |-> s, text |-> ReasonText(s)] :
      s \in TargetStatuses}
  \cup {[raises |-> TRUE, status |-> 0, text |-> ""]}

DeliverRaiseForStatus(out) ==
  IF out.status >= 400 THEN [out EXCEPT !.raises = TRUE] ELSE out

\* What _request hands to its caller for the outcome of
\* self._client.request: the response itself, whatever its status.
Deliver(out) == out

\* The headers argument of get/post: None, or a dict of the caller's.
CallerHeaders ==
  [n \in {"X-Trace", "Authorization"} |->
     IF n = "X-Trace" THEN <<"1">> ELSE <<"Basic", "me">>]

HeaderArgs ==
  {[given |-> FALSE, dict |-> <<>>]}
  \cup
  {[given |-> TRUE, dict |-> [n \in S |-> CallerHeaders[n]]] :
     S \in SUBSET (DOMAIN CallerHeaders)}

MergeHeadersOnlyAuth(arg, tokenType, accessToken) ==
  [n \in {"Authorization"} |-> <<tokenType, accessToken>>]

\* _request: headers = {} when None, then
\* headers["Authorization"] = f"{token_type} {access_token}".
MergeHeaders(arg, tokenType, accessToken) ==
  LET d == IF arg.given THEN arg.dict ELSE <<>> IN
    [n \in DOMAIN d \cup {"Authorization"} |->
       IF n = "Authorization" THEN <<tokenType, accessToken>> ELSE d[n]]

\* The finally block of post: every collected handle is closed.
CloseAll(hs, toClose) ==
  [h \in Handles |-> IF h \in toClose THEN "closed" ELSE hs[h]]

(***************************************************************************)
(* submit_results.                                                         *)
(***************************************************************************)
Suffixes == {".csv", ".xlsx", ".xls", ".txt"}

NoContract == "<None>"

Contracts == {NoContract, "test_contract"}

\* The arguments of submit_results: the suffix of fn_results, whether
\* df_results is given, whether the file exists, the submission contract.
SubmitArgs ==
  [suffix : Suffixes, df : BOOLEAN, exists : BOOLEAN, contract : Contracts]

ValidateNoExistsCheck(a) ==
  IF a.suffix \notin {".csv", ".xlsx", ".xls"}
    THEN [raised |-> TRUE, touched |-> FALSE,
          err |-> <<"Unsupported file format.">>]
    ELSE IF ~a.df
      THEN [raised |-> FALSE, touched |-> TRUE, err |-> <<>>]
      ELSE IF a.suffix # ".csv"
        THEN [raised |-> TRUE, touched |-> TRUE,
              err |-> <<"When providing results as a DataFrame, the filename must end with .csv">>]
        ELSE [raised |-> FALSE, touched |-> TRUE, err |-> <<>>]

\* The checks of submit_results before it calls client.post; `touched`
\* says whether client.username has been read.
Validate(a) ==
  IF a.suffix \notin {".csv", ".xlsx", ".xls"}
    THEN [raised |-> TRUE, touched |-> FALSE,
          err |-> <<"Unsupported file format.">>]
    ELSE IF ~a.df
      THEN IF ~a.exists
        THEN [raised |-> TRUE, touched |-> TRUE,
              err |-> <<"The specified results file does not exist: ">>]
        ELSE [raised |-> FALSE, touched |-> TRUE, err |-> <<>>]
      ELSE IF a.suffix # ".csv"
        THEN [raised |-> TRUE, touched |-> TRUE,
              err |-> <<"When providing results as a DataFrame, the filename must end with .csv">>]
        ELSE [raised |-> FALSE, touched |-> TRUE, err |-> <<>>]

\* f"/result/upload/{submission_contract}", the contract defaulted.
UploadEndpoint(contract) ==
  <<"/result/upload/",
    IF contract = NoContract THEN "submission_cross2025" ELSE contract>>

\* The files argument submit_results passes: one (name, handle, mimetype)
\* tuple under "file"; the handle is the opened file or the BytesIO buffer.
UploadFiles ==
  [present |-> TRUE, container |-> "dict",
   entries |-> [f \in {"file"} |-> [form |-> "tuple", content |-> "h1"]]]

SubmitResultAny2xx(res) ==
  IF res.status >= 200 /\ res.status < 300
    THEN [outcome |-> "returned", errType |-> "", err |-> <<>>]
    ELSE [outcome |-> "raised", errType |-> "ValueError",
          err |-> <<"Submission failed with status code ",
                    StatusStr(res.status), ": ", res.text>>]

\* The end of submit_results: 201 is success, any other status raises
\* ValueError(f"Submission failed with status code {status_code}: {text}").
SubmitResult(res) ==
  IF res.status = 201
    THEN [outcome |-> "returned", errType |-> "", err |-> <<>>]
    ELSE [outcome |-> "raised", errType |-> "ValueError",
          err |-> <<"Submission failed with status code ",
                    StatusStr(res.status), ": ", res.text>>]

\* submit_results up to the call of _request inside client.post.
SubmitBegin ==
  /\ built
  /\ call.pc = "idle"
  /\ ret = NoRet
  /\ \E a \in SubmitArgs :
       LET v == Validate(a)
           att == HandlesOf(UploadFiles.entries)
           c == CollectHandles(UploadFiles)
       IN
         IF v.raised
           THEN /\ call' = IdleCall
                /\ ret' = [NoRet EXCEPT !.op = "submit", !.at = now,
                             !.caller = "submit",
                             !.sub = [NoSub EXCEPT !.outcome = "raised",
                                        !.errType = "ValueError",
                                        !.err = v.err, !.posts = 0,
                                        !.touched = v.touched,
                                        !.args = a]]
                /\ UNCHANGED handles
           ELSE /\ call' = [IdleCall EXCEPT !.pc = "type",
                              !.method = "POST", !.before = token,
                              !.attached = att, !.toClose = c.toClose,
                              !.caller = "submit",
                              !.endpoint = UploadEndpoint(a.contract),
                              !.args = a]
                /\ ret' = NoRet
                /\ handles' = [h \in Handles |->
                                 IF h \in att THEN "open" ELSE "closed"]
  /\ wire' = NoWire
  /\ UNCHANGED <<now, built, token, thr>>

\* CrossClient.get up to the call of _request.
GetBegin ==
  /\ built
  /\ call.pc = "idle"
  /\ ret = NoRet
  /\ \E h \in HeaderArgs :
       call' = [IdleCall EXCEPT !.pc = "type", !.method = "GET",
                                !.before = token, !.endpoint = <<"/result">>,
                                !.headers = h]
  /\ ret' = NoRet
  /\ wire' = NoWire
  /\ UNCHANGED <<now, built, token, handles, thr>>

\* CrossClient.post up to the call of _request.  The caller has opened the
\* files it attaches; a handle name it does not attach names no open file.
PostBegin ==
  /\ built
  /\ call.pc = "idle"
  /\ ret = NoRet
  /\ \E files \in FilesArgs, hd \in HeaderArgs :
       LET att == HandlesOf(files.entries)
           c == CollectHandles(files)
       IN
         /\ handles' = [h \in Handles |->
                          IF h \in att THEN "open" ELSE "closed"]
         /\ IF c.raised
              THEN /\ call' = IdleCall
                   /\ ret' = [NoRet EXCEPT !.op = "POST",
                                !.outcome = "raised",
                                !.errType = c.errType,
                                !.before = token, !.at = now,
                                !.attached = att,
                                !.startExpired = IsExpired(token, now)]
              ELSE /\ call' = [IdleCall EXCEPT !.pc = "type",
                                 !.method = "POST", !.before = token,
                                 !.attached = att, !.toClose = c.toClose,
                                 !.endpoint = <<"/result">>,
                                 !.headers = hd]
                   /\ ret' = NoRet
  /\ wire' = NoWire
  /\ UNCHANGED <<now, built, token, thr>>

\* The call ends by an exception of the token layer.
RaiseFromToken(r) ==
  /\ call' = IdleCall
  /\ handles' = CloseAll(handles, call.toClose)
  /\ ret' = [NoRet EXCEPT !.op = call.method, !.outcome = "raised",
               !.errType = r.errType, !.err = r.err,
               !.logins = call.logins + r.logins, !.requested = TRUE,
               !.before = call.before, !.pre = token, !.at = now,
               !.resp = r.resp, !.attached = call.attached,
               !.startExpired = IF call.pc = "type"
                                  THEN IsExpired(token, now)
                                  ELSE call.startExpired,
               !.loginReq = LoginRequest(token, now),
               !.caller = call.caller, !.endpoint = call.endpoint,
               !.sub = IF call.caller = "submit"
                         THEN [NoSub EXCEPT !.outcome = "raised",
                                 !.errType = r.errType, !.err = r.err,
                                 !.posts = 1, !.touched = TRUE,
                                 !.args = call.args]
                         ELSE NoSub]

\* _request: the first read of self._token_client.token, for token_type.
ReadTokenType ==
  /\ call.pc = "type"
  /\ \E response \in Answers(token, now) :
       LET r == TokenProperty(token, now, response) IN
         /\ token' = r.cache
         /\ IF r.raised
              THEN RaiseFromToken(r)
              ELSE /\ call' = [call EXCEPT !.pc = "access",
                                 !.startExpired = IsExpired(token, now),
                                 !.tokenType = r.value.token_type,
                                 !.logins = @ + r.logins,
                                 !.resp = IF r.logins > 0 THEN r.resp ELSE @,
                                 !.loginReq = IF r.logins > 0
                                                THEN LoginRequest(token, now)
                                                ELSE @]
                   /\ UNCHANGED <<handles, ret>>
  /\ UNCHANGED <<now, built, wire, thr>>

\* _request: the second read of self._token_client.token, for access_token;
\* the Authorization header is complete.
ReadAccessToken ==
  /\ call.pc = "access"
  /\ \E response \in Answers(token, now) :
       LET r == TokenProperty(token, now, response) IN
         /\ token' = r.cache
         /\ IF r.raised
              THEN /\ RaiseFromToken(r)
                   /\ UNCHANGED wire
              ELSE /\ call' = [call EXCEPT !.pc = "dispatch",
                                 !.logins = @ + r.logins,
                                 !.resp = IF r.logins > 0 THEN r.resp ELSE @,
                                 !.loginReq = IF r.logins > 0
                                                THEN LoginRequest(token, now)
                                                ELSE @]
                   /\ wire' = [NoWire EXCEPT !.tokenType = call.tokenType,
                                 !.accessToken = r.value.access_token,
                                 !.given = call.headers,
                                 !.headers =
                                    MergeHeaders(call.headers,
                                                 call.tokenType,
                                                 r.value.access_token)]
                   /\ UNCHANGED <<handles, ret>>
  /\ UNCHANGED <<now, built, thr>>

\* _request: self._client.request(method, endpoint, headers=headers); the
\* response is returned, a transport error propagates.  When submit_results
\* made the call, it goes on to judge the response.
Dispatch ==
  /\ call.pc = "dispatch"
  /\ \E out \in TransportOutcomes :
       LET d == Deliver(out)
           j == SubmitResult(d)
       IN
         /\ ret' = [NoRet EXCEPT !.op = call.method,
                      !.outcome = IF d.raises THEN "raised" ELSE "returned",
                      !.errType = IF d.raises THEN "TransportError" ELSE "",
                      !.logins = call.logins, !.requested = TRUE,
                      !.sent = 1, !.status = d.status, !.text = d.text,
                      !.before = call.before, !.pre = token, !.at = now,
                      !.resp = call.resp, !.attached = call.attached,
                      !.startExpired = call.startExpired,
                      !.loginReq = call.loginReq,
                      !.caller = call.caller, !.endpoint = call.endpoint,
                      !.sub = IF call.caller # "submit" THEN NoSub
                              ELSE IF d.raises
                                THEN [NoSub EXCEPT !.outcome = "raised",
                                        !.errType = "TransportError",
                                        !.posts = 1, !.touched = TRUE,
                                        !.args = call.args]
                                ELSE [NoSub EXCEPT !.outcome = j.outcome,
                                        !.errType = j.errType,
                                        !.err = j.err,
                                        !.posts = 1, !.touched = TRUE,
                                        !.args = call.args]]
         /\ wire' = [wire EXCEPT !.method = call.method, !.cache = token,
                                 !.at = now, !.endpoint = call.endpoint,
                                 !.answer = out]
  /\ call' = IdleCall
  /\ handles' = CloseAll(handles, call.toClose)
  /\ UNCHANGED <<now, built, token, thr>>

Next ==
  \/ Tick
  \/ Forget
  \/ Construct
  \/ CurrentToken
  \/ GetBegin
  \/ PostBegin
  \/ SubmitBegin
  \/ ReadTokenType
  \/ ReadAccessToken
  \/ Dispatch

Spec == Init /\ [][Next]_vars

(***************************************************************************)
(* Two callers of TokenClient.token on one client, without a lock.  A      *)
(* read is short against the unit of the clock: the clock moves only       *)
(* while no read is under way.                                             *)
(***************************************************************************)
RenewInPlace(cached, new) == [cache |-> new, old |-> new]

\* self._token = <new token>: _token is bound to the new object; `old` is
\* the content of the object that was cached, which nothing writes to.
Renew(cached, new) == [cache |-> new, old |-> cached]

ConcTick ==
  /\ \A c \in Threads : thr[c].pc \in {"idle", "done", "failed"}
  /\ Tick

\* A caller starts to read client.token.
TokenBegin(c) ==
  /\ built
  /\ call.pc = "idle"
  /\ thr[c].pc = "idle"
  /\ thr' = [thr EXCEPT ![c].pc = "check"]
  /\ UNCHANGED <<now, built, token, call, handles, wire, ret>>

\* if self._token is None or self._token.is_expired
TokenCheck(c) ==
  /\ thr[c].pc = "check"
  /\ thr' = [thr EXCEPT ![c].pc =
               IF token = NoToken \/ IsExpired(token, now)
                 THEN "login" ELSE "return"]
  /\ UNCHANGED <<now, built, token, call, handles, wire, ret>>

\* self._get_token(): the login POST and the validation of its answer.
TokenLogin(c) ==
  /\ thr[c].pc = "login"
  /\ \E response \in LoginResponses(now) :
       LET g == GetToken(response) IN
         thr' = [thr EXCEPT ![c].pc = IF g.ok THEN "assign" ELSE "failed",
                            ![c].got = g.tok]
  /\ UNCHANGED <<now, built, token, call, handles, wire, ret>>

\* self._token = ...: the caller's new token becomes the cached one.  A
\* caller that holds the object cached so far holds it still.
TokenAssign(c) ==
  /\ thr[c].pc = "assign"
  /\ LET r == Renew(token, thr[c].got) IN
       /\ token' = r.cache
       /\ thr' = [d \in Threads |->
                    IF d = c THEN [thr[d] EXCEPT !.pc = "return"]
                    ELSE IF thr[d].alias
                      THEN [thr[d] EXCEPT !.value = r.old, !.alias = FALSE]
                      ELSE thr[d]]
  /\ UNCHANGED <<now, built, call, handles, wire, ret>>

\* return self._token
TokenReturn(c) ==
  /\ thr[c].pc = "return"
  /\ thr' = [thr EXCEPT ![c].pc = "done", ![c].value = token,
                        ![c].orig = token, ![c].alias = TRUE,
                        ![c].at = now]
  /\ UNCHANGED <<now, built, token, call, handles, wire, ret>>

ConcNext ==
  \/ ConcTick
  \/ Forget
  \/ Construct
  \/ \E c \in Threads : TokenBegin(c)
  \/ \E c \in Threads : TokenCheck(c)
  \/ \E c \in Threads : TokenLogin(c)
  \/ \E c \in Threads : TokenAssign(c)
  \/ \E c \in Threads : TokenReturn(c)

ConcSpec == Init /\ [][ConcNext]_vars

(***************************************************************************)
(* Properties.  `ret` describes the call that has just finished: `before`  *)
(* is _token when it began, `pre` is _token before its last read of the    *)
(* token property, `at` the wall-clock time of its last step, `resp` the   *)
(* answer to its last login POST.  `wire` is the request it dispatched.    *)
(***************************************************************************)

\* C1: a read of TokenClient.token that finds the cached token unexpired
\* returns that token, leaves it cached and makes no login call; a read that
\* finds it expired makes exactly one login call, and when that call yields a
\* token, that token is cached and returned.
C1_TokenCachedOrRenewed ==
  ret.op = "token" =>
    /\ ~IsExpired(ret.before, ret.at) =>
         /\ ret.outcome = "returned"
         /\ ret.value = ret.before
         /\ token = ret.before
         /\ ret.logins = 0
    /\ IsExpired(ret.before, ret.at) =>
         /\ ret.logins = 1
         /\ ret.resp \in LoginResponses(ret.at)
         /\ ret.outcome = "returned" =>
              /\ ret.resp.status = 200
              /\ ret.value.access_token = ret.resp.body.access_token
              /\ ret.value.token_type = ret.resp.body.token_type
              /\ ret.value.expires_in = ret.resp.body.expires_in
              /\ token = ret.value

C1_Witness ==
  /\ ret.op = "token"
  /\ IsExpired(ret.before, ret.at)
  /\ ret.outcome = "returned"
  /\ ret.value # ret.before
  /\ token = ret.value

\* C2: when the cached token is expired and the login endpoint accepts the
\* credentials, the next read of TokenClient.token returns a token that
\* carries the access_token of the login response and is not expired at the
\* time of return.
C2_RenewedTokenFresh ==
  (/\ ret.op = "token"
   /\ IsExpired(ret.before, ret.at)
   /\ ret.resp.status = 200
   /\ WellFormed(ret.resp.body))
  =>
    /\ ret.outcome = "returned"
    /\ ret.value.access_token = ret.resp.body.access_token
    /\ ~IsExpired(ret.value, ret.at)

\* C3: a token with expires_in > 0 is not expired at the moment it is built
\* from a login response, and a read of TokenClient.token treats the cached
\* token as expired exactly when the wall-clock time of the read is at least
\* created_at + expires_in.
C3_ExpiryLaw ==
  /\ (/\ ret.op \in {"construct", "token"}
      /\ ret.outcome = "returned"
      /\ ret.logins = 1
      /\ ret.value.expires_in > 0)
     => ~IsExpired(ret.value, ret.at)
  /\ ret.op = "token" =>
       (ret.logins = 1 <=>
          ret.at >= ret.before.created_at + ret.before.expires_in)

\* C4: a token built from a login response that omits created_at has
\* created_at equal to the time of that login response.
C4_CreatedAtDefaultsToIssuance ==
  (/\ ret.op \in {"construct", "token"}
   /\ ret.outcome = "returned"
   /\ ret.logins = 1
   /\ ret.resp.body.created_at = MissingInt)
  => ret.value.created_at = ret.at

\* C5: the Authorization header of every dispatched request is made of the
\* token_type and the access_token of the token cached at the time of
\* dispatch, and that token is not expired then.
C5_HeaderFromCurrentToken ==
  wire.method # "" =>
    /\ wire.tokenType = wire.cache.token_type
    /\ wire.accessToken = wire.cache.access_token
    /\ ~IsExpired(wire.cache, wire.at)

\* C6: when a post call with attached file handles has returned or raised,
\* every attached handle is closed.
C6_HandlesClosed ==
  (ret.op = "POST" /\ ret.attached # {})
  => \A h \in ret.attached : handles[h] = "closed"

\* C7: constructing the client succeeds exactly when the login answers 200
\* with a well-formed token body; then the cached token has the fields of
\* that body; otherwise the constructor raises and no client exists.
C7_ConstructionIffLoginOk ==
  ret.op = "construct" =>
    /\ ret.outcome = "returned" <=>
         (ret.resp.status = 200 /\ WellFormed(ret.resp.body))
    /\ ret.outcome = "returned" =>
         /\ built
         /\ token.access_token = ret.resp.body.access_token
         /\ token.refresh_token = ret.resp.body.refresh_token
         /\ token.token_type = ret.resp.body.token_type
         /\ token.expires_in = ret.resp.body.expires_in
         /\ token.refresh_expires_in = ret.resp.body.refresh_expires_in
         /\ ret.resp.body.created_at # MissingInt =>
              token.created_at = ret.resp.body.created_at
    /\ ret.outcome # "returned" =>
         /\ ret.outcome = "raised"
         /\ ~built
         /\ token = NoToken

C7_Witness ==
  /\ ret.op = "construct"
  /\ ret.outcome = "returned"
  /\ built
  /\ token.access_token = "abc123"

C9_FailedLoginLeavesCache ==
  (/\ ret.op \in {"token", "GET", "POST"}
   /\ ret.resp # NoResponse
   /\ ~(ret.resp.status = 200 /\ WellFormed(ret.resp.body)))
  =>
    /\ ret.outcome = "raised"
    /\ ret.value = NoToken
    /\ token = ret.pre
    /\ IsExpired(token, ret.at)
    /\ WellFormed(token)

C9_Witness ==
  /\ ret.op = "GET"
  /\ ret.outcome = "raised"
  /\ ret.resp.status = 200
  /\ ~WellFormed(ret.resp.body)
  /\ token = ret.pre
  /\ token # ret.before

\* C10: a read of the token property makes at most one login call; a get or
\* post call that asks for a token sends no request when a login it makes
\* fails, and raises; it sends exactly one request when it needs no login or
\* every login it makes succeeds.
C10_LoginFailureBlocksDispatch ==
  /\ ret.op = "token" => ret.logins <= 1
  /\ (ret.op \in {"GET", "POST"} /\ ret.requested) =>
       IF ret.resp # NoResponse
            /\ ~(ret.resp.status = 200 /\ WellFormed(ret.resp.body))
         THEN /\ ret.outcome = "raised"
              /\ ret.sent = 0
              /\ wire.method = ""
         ELSE /\ ret.sent = 1
              /\ wire.method = ret.op

C10_Witness ==
  /\ ret.op = "POST"
  /\ ret.requested
  /\ ret.logins = 2
  /\ ret.resp.status = 401
  /\ ret.sent = 0

\* C11: whatever status the target endpoint answers, get/post return the
\* transport's response to the caller with its status and body unchanged and
\* raise nothing.
C11_ResponseReturnedUnchanged ==
  (wire.method # "" /\ ~wire.answer.raises) =>
    /\ ret.op = wire.method
    /\ ret.outcome = "returned"
    /\ ret.errType = ""
    /\ ret.status = wire.answer.status
    /\ ret.text = wire.answer.text

C11_Witness ==
  /\ wire.method = "GET"
  /\ wire.answer.status = 500
  /\ ret.outcome = "returned"
  /\ ret.status = 500
  /\ ret.text = "Internal Server Error"

\* C12: when the upload is answered, submit_results succeeds exactly when the
\* status is 201; for any other status it raises a ValueError whose message
\* contains the status code and the response body text.
C12_SubmitSucceedsOn201Only ==
  (ret.caller = "submit" /\ wire.method # "" /\ ~wire.answer.raises) =>
    /\ ret.sub.outcome = "returned" <=> wire.answer.status = 201
    /\ wire.answer.status # 201 =>
         /\ ret.sub.outcome = "raised"
         /\ ret.sub.errType = "ValueError"
         /\ \E i \in DOMAIN ret.sub.err :
              ret.sub.err[i] = StatusStr(wire.answer.status)
         /\ \E i \in DOMAIN ret.sub.err :
              ret.sub.err[i] = wire.answer.text

C12_Witness ==
  /\ ret.caller = "submit"
  /\ wire.answer.status = 200
  /\ ret.sub.outcome = "raised"
  /\ ret.sub.err = <<"Submission failed with status code ", "200", ": ", "OK">>

\* C13: submit_results raises ValueError without calling client.post for an
\* unsupported extension (before it reads the client), for a missing file
\* when no DataFrame is given, and for a DataFrame with a name that is not
\* .csv; every other invocation calls client.post exactly once, on
\* /result/upload/<contract>, the contract being submission_cross2025 when
\* None is given.
C13_ValidateBeforeUpload ==
  ret.caller = "submit" =>
    LET a == ret.sub.args
        badSuffix == a.suffix \notin {".csv", ".xlsx", ".xls"}
        missing == ~badSuffix /\ ~a.df /\ ~a.exists
        badFrame == ~badSuffix /\ a.df /\ a.suffix # ".csv"
    IN
      /\ badSuffix => ~ret.sub.touched
      /\ (badSuffix \/ missing \/ badFrame) =>
           /\ ret.sub.outcome = "raised"
           /\ ret.sub.errType = "ValueError"
           /\ ret.sub.posts = 0
           /\ ret.sent = 0
      /\ ~(badSuffix \/ missing \/ badFrame) =>
           /\ ret.sub.posts = 1
           /\ ret.op = "POST"
           /\ ret.endpoint =
                <<"/result/upload/",
                  IF a.contract = NoContract
                    THEN "submission_cross2025" ELSE a.contract>>

C13_Witness ==
  /\ ret.caller = "submit"
  /\ ret.sub.args.contract = NoContract
  /\ ret.sub.posts = 1
  /\ wire.endpoint = <<"/result/upload/", "submission_cross2025">>
  /\ ret.sub.outcome = "returned"

\* C14: a token with refresh_expires_in > 0 is not refresh-expired at the
\* moment it is built from a login response, and is_refresh_expired read at
\* time t is true exactly when t >= created_at + refresh_expires_in.
C14_RefreshExpiryLaw ==
  /\ (/\ ret.op \in {"construct", "token"}
      /\ ret.outcome = "returned"
      /\ ret.logins = 1
      /\ ret.value.refresh_expires_in > 0)
     => ~IsRefreshExpired(ret.value, ret.at)
  /\ built =>
       \A t \in 0..MaxTime :
          IsRefreshExpired(token, t) <=>
            t >= token.created_at + token.refresh_expires_in

\* C16: whenever a client exists, after any failed or successful renewal,
\* its cached token is not null and is a complete token as a successful login
\* response carries it.
C16_TokenNeverNull ==
  built =>
    /\ token # NoToken
    /\ WellFormed(token)
    /\ token.created_at # MissingInt
    /\ [token_type |-> token.token_type,
        access_token |-> token.access_token] \in Issued

C16_Witness ==
  /\ built
  /\ ret.op \in {"token", "GET", "POST"}
  /\ ret.outcome = "raised"
  /\ ret.resp.status = 401
  /\ token # NoToken

C19_CallerHeadersKept ==
  wire.method # "" =>
    /\ "Authorization" \in DOMAIN wire.headers
    /\ \A n \in DOMAIN wire.given.dict :
         /\ n \in DOMAIN wire.headers
         /\ wire.headers[n] = wire.given.dict[n]

\* C19 amended: every header the caller supplies under a name other than
\* Authorization is in the dispatched request with the value supplied, next
\* to the Authorization header built from the token; a caller-supplied
\* Authorization header is replaced by it.
C19_OtherCallerHeadersKept ==
  wire.method # "" =>
    /\ "Authorization" \in DOMAIN wire.headers
    /\ wire.headers["Authorization"] = <<wire.tokenType, wire.accessToken>>
    /\ \A n \in DOMAIN wire.given.dict \ {"Authorization"} :
         /\ n \in DOMAIN wire.headers
         /\ wire.headers[n] = wire.given.dict[n]

C19_Witness ==
  /\ wire.method = "POST"
  /\ wire.given.given
  /\ DOMAIN wire.given.dict = {"X-Trace", "Authorization"}
  /\ wire.headers["X-Trace"] = <<"1">>
  /\ wire.headers["Authorization"] # <<"Basic", "me">>

\* C20: one get/post call makes no login call when the cached token is
\* unexpired when the call first asks for it and exactly one when it is
\* expired then.
C20_AtMostOneLoginPerCall ==
  (ret.op \in {"GET", "POST"} /\ ret.requested) =>
    /\ ret.logins <= 1
    /\ ~ret.startExpired => ret.logins = 0
    /\ ret.startExpired => ret.logins = 1

\* C15: when two callers interleave reads of client.token, every caller that
\* gets a token gets one that came whole from one successful login response
\* and is not expired when it is returned, and when both are through and a
\* login succeeded, the cached token is one of the tokens issued to them.
C15_InterleavedRenewals ==
  /\ \A c \in Threads :
       thr[c].pc = "done" =>
         /\ WellFormed(thr[c].orig)
         /\ [token_type |-> thr[c].orig.token_type,
             access_token |-> thr[c].orig.access_token] \in Issued
         /\ ~IsExpired(thr[c].orig, thr[c].at)
  /\ ((\A c \in Threads : thr[c].pc \in {"done", "failed"})
      /\ (\E c \in Threads : thr[c].got # NoToken))
     =>
       /\ token # NoToken
       /\ \E c \in Threads : thr[c].got # NoToken /\ token = thr[c].got

\* C17: a renewal binds _token to a new token and writes to no field of the
\* token cached before: a token a caller got from client.token has the
\* field values it was returned with, whatever renewals follow, and is the
\* cached token only until the next renewal.
C17_RenewalSwapsWholeValue ==
  \A c \in Threads :
    thr[c].pc = "done" =>
      /\ thr[c].value = thr[c].orig
      /\ thr[c].alias => token = thr[c].value

C17_Witness ==
  \E c, d \in Threads :
    /\ thr[c].pc = "done"
    /\ thr[d].pc = "done"
    /\ ~thr[c].alias
    /\ thr[c].value = thr[c].orig
    /\ thr[d].got = token
    /\ token # thr[c].value

====
